---- MODULE Spec2Model ----
(***************************************************************************)
(* Model of the persistence layer (models.py, class RawDatabase) and of    *)
(* the report runner (zoho_reports.py, class ZohoReports).                 *)
(*                                                                         *)
(* Three specifications share the module:                                  *)
(*   Spec         insert_data against one destination table                *)
(*   SpecQuery    execute_query                                            *)
(*   SpecReports  the __main__ block and get_reports                       *)
(*                                                                         *)
(* Modelling conventions                                                   *)
(*  - a column name is the sequence of its pieces, each piece a run of     *)
(*    alphanumeric characters or one other character, so that the          *)
(*    character filter of the name normalisation can be computed;          *)
(*  - the destination store is MySQL with a transactional engine: the      *)
(*    block "with engine.begin() as conn" commits when it is left normally *)
(*    and rolls back when it is left by an exception;                      *)
(*  - time is a logical clock: every statement execution and every         *)
(*    datetime.now() reads an instant later than all earlier reads;        *)
(*  - a statement execution against an existing table either succeeds or   *)
(*    fails (injected); against a missing table it fails with MySQL error  *)
(*    1146.  The connection itself is taken to open.                       *)
(***************************************************************************)
EXTENDS Integers, Sequences, FiniteSets, TLC

VARIABLES
    \* ---- destination store
    table,        \* the committed destination table, as other readers see it
    txn,          \* the table as seen inside the call's open transaction
    now,          \* logical clock
    \* ---- the caller and one insert_data call
    input,        \* the content the caller builds its table from
    data,         \* the caller's table object, passed as `data`
    batch_size,
    pc,
    sql_query,
    data_dicts,
    idx,          \* number of chunks the generator has yielded so far
    result,
    t1_start,
    err,          \* the caught SQLAlchemyError: se.orig.args
    ret,          \* what the call returned
    \* ---- history of the call (not read by the program)
    calls,
    table0,       \* committed table when the call started
    executed,     \* chunk numbers handed to conn.execute, in order
    outcome,
    prev,         \* whether the previous call returned its success pair
    \* ---- execute_query
    qpc, query, qtext, qexecs, qraised, qret,
    \* ---- __main__ / get_reports
    rpc, ri, attempted, doneLines, errorLines, summary,
    page,         \* params['page']
    iter,         \* the paging loop's counter i
    fetches,      \* GET requests of the current report
    results,      \* the pages whose records were added, in order
    persisted     \* the pages handed to insert_df_table

dbVars == <<table, txn, now, input, data, batch_size, pc, sql_query, data_dicts,
            idx, result, t1_start, err, ret, calls, table0, executed, outcome,
            prev>>
qVars  == <<qpc, query, qtext, qexecs, qraised, qret>>
rVars  == <<rpc, ri, attempted, doneLines, errorLines, summary,
            page, iter, fetches, results, persisted>>
vars   == <<dbVars, qVars, rVars>>

\* ------------------------------------------------------------------ bounds
MaxRows  == 2      \* rows of the caller's table: 0..MaxRows
MaxCalls == 2      \* insert_data calls in one behaviour
MaxQueryLen == 3   \* pieces of a query text

\* ------------------------------------------------------------------ values
NoneVal  == "<None>"     \* Python None, SQL NULL
NaNFloat == "<nan>"      \* float('nan') / numpy.nan

Keys == {"k1", "k2"}
Vals == {"x", "NaN"}

Min(a, b) == IF a < b THEN a ELSE b
Range(s)  == {s[i] : i \in 1..Len(s)}

\* ------------------------------------------------------------ column names
ColId    == <<"id">>
ColNote  == <<"Credit", " ", "Note", " ", "#">>
record_inserted == <<"record", "_", "inserted">>
record_updated  == <<"record", "_", "updated">>
NoName   == <<>>

\* The alphanumeric runs; every other piece is one non-alphanumeric character.
AlNum == {"id", "Credit", "Note", "record", "inserted", "updated", "x"}
isalnum(c) == c \in AlNum

\* ''.join(e for e in i if e.isalnum()) for each column name
normalise(cols) == [i \in 1..Len(cols) |-> SelectSeq(cols[i], isalnum)]

\* --------------------------------------------------------------- DataFrame
\* A frame: ordered columns and positional rows.
Frame(cols, rows) == [columns |-> cols, rows |-> rows]

InputColumns == <<ColId, ColNote>>
InputRows == UNION {[1..n -> {<<k, v>> : k \in Keys, v \in Vals}] : n \in 0..MaxRows}

\* data.where(pd.notnull(data), None), .replace({np.nan: None}),
\* .replace({'NaN': None}), value by value
where_notnull(v) == IF v \in {NoneVal, NaNFloat} THEN NoneVal ELSE v
replace_nan(v)   == IF v = NaNFloat THEN NoneVal ELSE v
replace_NaN_forgotten(v) == v
replace_NaN(v)   == IF v = "NaN" THEN NoneVal ELSE v

clean_value(v) == replace_NaN(replace_nan(where_notnull(v)))

\* Line 105: _clean_data's own normalisation of the headers
clean_columns_kept(cols) == cols
clean_columns(cols) == [i \in 1..Len(cols) |-> SelectSeq(cols[i], isalnum)]

\* _clean_data: a new frame; the argument is not touched
_clean_data(d) ==
    Frame(clean_columns(d.columns),
          [r \in 1..Len(d.rows) |->
              [c \in 1..Len(d.rows[r]) |-> clean_value(d.rows[r][c])]])

\* DataFrame.to_dict('records'): one dict per row, keyed by column name
to_dict_records(d) ==
    [r \in 1..Len(d.rows) |->
        [n \in Range(d.columns) |->
            d.rows[r][CHOOSE c \in 1..Len(d.columns) : d.columns[c] = n
                         /\ \A c2 \in (c+1)..Len(d.columns) : d.columns[c2] # n]]]

\* data[name] = value: a new last column, or the existing one overwritten
set_column(d, name, value) ==
    IF name \in Range(d.columns)
    THEN Frame(d.columns,
               [r \in 1..Len(d.rows) |->
                   [c \in 1..Len(d.columns) |->
                       IF d.columns[c] = name THEN value ELSE d.rows[r][c]]])
    ELSE Frame(Append(d.columns, name),
               [r \in 1..Len(d.rows) |-> Append(d.rows[r], value)])

\* ------------------------------------------------------- destination table
\* A table: whether it exists, its columns, its primary key column (NoName:
\* none), whether the audit columns default to the current timestamp, and its
\* rows, each a function from the column names.
NoTable == [exists |-> FALSE, columns |-> <<>>, pk |-> NoName,
            defaults |-> FALSE, rows |-> <<>>]

\* The destination as its DDL (kept outside the repository) creates it: the
\* report's columns, the audit columns maintained by the store, a primary key.
DdlTable == [exists |-> TRUE,
             columns |-> InputColumns \o <<record_inserted, record_updated>>,
             pk |-> ColId, defaults |-> TRUE, rows |-> <<>>]

AuditColumns == {record_inserted, record_updated}

\* ---------------------------------------------------------- the statement
\* updateString: `c` = values(`c`) for every column, then
\* `record_updated` = current_timestamp()
updateString_no_timestamp(all_columns) ==
    [values |-> Range(all_columns), timestamp |-> {}]
updateString(all_columns) ==
    [values |-> Range(all_columns), timestamp |-> {record_updated}]

\* INSERT INTO table (all_columns) VALUES (:normalised...) ON DUPLICATE KEY
\* UPDATE updateString
build_sql_query(all_columns) ==
    [columns |-> all_columns,
     params  |-> normalise(all_columns),
     update  |-> updateString(all_columns)]

\* def chunker(seq, size): seq[pos:pos + size] for pos in range(0, len(seq), size)
chunker_nopos(seq, size) ==
    [i \in 1..((Len(seq) + size - 1) \div size) |->
        SubSeq(seq, (i - 1) * size + 1, Min(size, Len(seq)))]

chunker(seq, size) ==
    [i \in 1..((Len(seq) + size - 1) \div size) |->
        SubSeq(seq, (i - 1) * size + 1, Min(i * size, Len(seq)))]

\* The value a statement binds to destination column c from one row's dict.
bound_value(stmt, dict, c) ==
    dict[stmt.params[CHOOSE i \in 1..Len(stmt.columns) : stmt.columns[i] = c]]

\* MySQL's INSERT ... ON DUPLICATE KEY UPDATE of one row at timestamp ts.
\* Returns the table and the affected-row count (1 inserted, 2 updated,
\* 0 updated to the same values).
execute_row(t, stmt, dict, ts) ==
    LET dup == {j \in 1..Len(t.rows) :
                    /\ t.pk # NoName
                    /\ t.pk \in Range(stmt.columns)
                    /\ t.rows[j][t.pk] = bound_value(stmt, dict, t.pk)}
    IN  IF dup # {}
        THEN LET j   == CHOOSE x \in dup : TRUE
                 new == [c \in Range(t.columns) |->
                            IF c \in stmt.update.values /\ c \in Range(stmt.columns)
                            THEN bound_value(stmt, dict, c)
                            ELSE IF c \in stmt.update.timestamp THEN ts
                            ELSE t.rows[j][c]]
             IN  [table    |-> [t EXCEPT !.rows[j] = new],
                  rowcount |-> IF new = t.rows[j] THEN 0 ELSE 2]
        ELSE LET new == [c \in Range(t.columns) |->
                            IF c \in Range(stmt.columns)
                            THEN bound_value(stmt, dict, c)
                            ELSE IF c \in AuditColumns /\ t.defaults THEN ts
                            ELSE NoneVal]
             IN  [table    |-> [t EXCEPT !.rows = Append(t.rows, new)],
                  rowcount |-> 1]

\* conn.execute(text(sql_query), batch): the rows of the batch in order.
RECURSIVE execute(_, _, _, _)
execute(t, stmt, batch, ts) ==
    IF batch = <<>>
    THEN [table |-> t, rowcount |-> 0]
    ELSE LET one  == execute_row(t, stmt, Head(batch), ts)
             rest == execute(one.table, stmt, Tail(batch), ts)
         IN  [table |-> rest.table, rowcount |-> one.rowcount + rest.rowcount]

\* data.to_sql(table_name, con=engine, if_exists='append', index=False):
\* creates the table from the frame's columns when it is missing (no key, no
\* defaults), then appends every row of the frame.
to_sql(t, d) ==
    LET base == IF t.exists THEN t
                ELSE [exists |-> TRUE, columns |-> d.columns, pk |-> NoName,
                      defaults |-> FALSE, rows |-> <<>>]
        new  == [r \in 1..Len(d.rows) |->
                    [c \in Range(base.columns) |->
                        IF c \in Range(d.columns)
                        THEN to_dict_records(d)[r][c] ELSE NoneVal]]
    IN  [base EXCEPT !.rows = base.rows \o new]

\* ------------------------------------------------------------- insert_data
MissingTableCode == 1146

Unbound     == [bound |-> FALSE, rowcount |-> 0]   \* `result` never assigned
NoErr       == [code |-> 0, doesnt_exist |-> FALSE]
NotReturned == [kind |-> "running", v |-> <<>>]
NoneRet     == [kind |-> "None", v |-> <<>>]        \* falling off the end
ListRet(a, b) == [kind |-> "list", v |-> <<a, b>>]

\* return [0,0]
zero_result_none == NoneRet
zero_result == ListRet(0, 0)

\* The injected failures of a statement execution on an existing table.
\* se.orig.args of a SQLAlchemyError: the MySQL error code and whether the
\* message holds "doesn't exist" (1048: column cannot be null; 1072: key
\* column doesn't exist in table).
SqlErrors == {[code |-> 1048, doesnt_exist |-> FALSE],
              [code |-> 1072, doesnt_exist |-> TRUE]}

\* error_code == 1146 and "doesn't exist" in error_message
is_missing_table_or(e) == e.code = MissingTableCode \/ e.doesnt_exist
is_missing_table(e) == e.code = MissingTableCode /\ e.doesnt_exist

chunks == chunker(data_dicts, batch_size)

\* with engine.begin() as conn: left by an exception, the transaction is
\* rolled back
rollback_commit == txn
rollback == table

\* Line 135, t1_start = perf_counter(): read once the setup of lines 112-133
\* is over, not when the call is entered.
perf_counter_start(entry, after_setup) == after_setup

\* Line 140, `result = ...`: the name is rebound to each chunk's result.
assign_result_sum(old, rowcount) ==
    [bound |-> TRUE, rowcount |-> old.rowcount + rowcount]
assign_result(old, rowcount) == [bound |-> TRUE, rowcount |-> rowcount]

\* Lines 109-136: the statement, the cleaned rows, the transaction opened.
InsertData(b) ==
    /\ pc \in {"idle", "done"}
    /\ UNCHANGED <<qVars, rVars>>
    /\ calls < MaxCalls
    /\ calls' = calls + 1
    /\ prev' = (outcome = "success")
    /\ data' = input
    /\ batch_size' = b
    /\ sql_query' = build_sql_query(data'.columns)
    /\ data_dicts' = to_dict_records(_clean_data(data'))
    /\ idx' = 0
    /\ result' = Unbound
    /\ now' = now + 1
    /\ t1_start' = perf_counter_start(now, now')
    /\ txn' = table
    /\ table0' = table
    /\ executed' = <<>>
    /\ outcome' = "running"
    /\ err' = NoErr
    /\ ret' = NotReturned
    /\ pc' = "loop"
    /\ UNCHANGED <<table, input>>

\* Line 136, `with self.engine.begin() as conn`: what another reader sees of
\* the table while the scope is open and conn has written `pending`.
reader_view_autocommit(committed, pending) == pending
reader_view(committed, pending) == committed

\* Line 140, the execution succeeding: the chunk is applied in the transaction.
ExecChunk ==
    /\ pc = "loop"
    /\ UNCHANGED <<qVars, rVars>>
    /\ idx < Len(chunks)
    /\ txn.exists
    /\ LET r == execute(txn, sql_query, chunks[idx + 1], now + 1)
       IN  /\ txn' = r.table
           /\ result' = assign_result(result, r.rowcount)
    /\ now' = now + 1
    /\ idx' = idx + 1
    /\ executed' = Append(executed, idx + 1)
    /\ table' = reader_view(table, txn')
    /\ UNCHANGED <<input, data, batch_size, pc, sql_query, data_dicts,
                   t1_start, err, ret, calls, table0, outcome, prev>>

\* Line 140 raising a SQLAlchemyError other than the missing table: the with
\* block is left, the transaction rolled back, line 143 catches.
ExecChunkSqlError(e) ==
    /\ pc = "loop"
    /\ UNCHANGED <<qVars, rVars>>
    /\ idx < Len(chunks)
    /\ txn.exists
    /\ now' = now + 1
    /\ idx' = idx + 1
    /\ executed' = Append(executed, idx + 1)
    /\ table' = rollback
    /\ txn' = table'
    /\ err' = e
    /\ outcome' = "sql_error"
    /\ pc' = "except_sql"
    /\ UNCHANGED <<input, data, batch_size, sql_query, data_dicts,
                   result, t1_start, ret, calls, table0, prev>>

\* Line 140 raising an exception that is no SQLAlchemyError (line 154 catches).
ExecChunkException ==
    /\ pc = "loop"
    /\ UNCHANGED <<qVars, rVars>>
    /\ idx < Len(chunks)
    /\ txn.exists
    /\ now' = now + 1
    /\ idx' = idx + 1
    /\ executed' = Append(executed, idx + 1)
    /\ table' = rollback
    /\ txn' = table'
    /\ outcome' = "exception"
    /\ pc' = "except_exc"
    /\ UNCHANGED <<input, data, batch_size, sql_query, data_dicts,
                   result, t1_start, err, ret, calls, table0, prev>>

\* Line 140 against a table that does not exist: MySQL error 1146.
ExecChunkMissingTable ==
    /\ pc = "loop"
    /\ UNCHANGED <<qVars, rVars>>
    /\ idx < Len(chunks)
    /\ ~txn.exists
    /\ now' = now + 1
    /\ idx' = idx + 1
    /\ executed' = Append(executed, idx + 1)
    /\ table' = rollback
    /\ txn' = table'
    /\ err' = [code |-> MissingTableCode, doesnt_exist |-> TRUE]
    /\ outcome' = "missing_table"
    /\ pc' = "except_sql"
    /\ UNCHANGED <<input, data, batch_size, sql_query, data_dicts,
                   result, t1_start, ret, calls, table0, prev>>

\* Lines 136-142 after the last chunk: the with block commits, the pair is
\* returned.
CommitReturn ==
    /\ pc = "loop"
    /\ UNCHANGED <<qVars, rVars>>
    /\ idx = Len(chunks)
    /\ result.bound
    /\ table' = txn
    /\ ret' = ListRet(result.rowcount, now - t1_start)
    /\ outcome' = "success"
    /\ pc' = "done"
    /\ UNCHANGED <<txn, now, input, data, batch_size, sql_query, data_dicts,
                   idx, result, t1_start, err, calls, table0, executed, prev>>

\* Lines 136-142 with no chunk executed: the with block commits nothing and
\* `result.rowcount` raises UnboundLocalError (line 154 catches).
CommitUnbound ==
    /\ pc = "loop"
    /\ UNCHANGED <<qVars, rVars>>
    /\ idx = Len(chunks)
    /\ ~result.bound
    /\ table' = txn
    /\ outcome' = "empty"
    /\ pc' = "except_exc"
    /\ UNCHANGED <<txn, now, input, data, batch_size, sql_query, data_dicts,
                   idx, result, t1_start, err, ret, calls, table0, executed,
                   prev>>

\* data['record_inserted'] = datetime.now()
\* data['record_updated'] = datetime.now()
add_audit_columns_forgotten(d, t) == d
add_audit_columns(d, t) ==
    set_column(set_column(d, record_inserted, t + 1), record_updated, t + 2)

\* Lines 148-151: the audit columns are set on the caller's frame, which is
\* then appended; the function falls off its end.
FallbackAppend ==
    /\ pc = "except_sql"
    /\ UNCHANGED <<qVars, rVars>>
    /\ is_missing_table(err)
    /\ data' = add_audit_columns(data, now)
    /\ now' = now + 2
    /\ table' = to_sql(table, data')
    /\ txn' = table'
    /\ ret' = NoneRet
    /\ outcome' = "fallback"
    /\ pc' = "done"
    /\ UNCHANGED <<input, batch_size, sql_query, data_dicts, idx, result,
                   t1_start, err, calls, table0, executed, prev>>

\* Lines 152-153: pass; the function falls off its end.
SwallowSqlError ==
    /\ pc = "except_sql"
    /\ UNCHANGED <<qVars, rVars>>
    /\ ~is_missing_table(err)
    /\ ret' = NoneRet
    /\ pc' = "done"
    /\ UNCHANGED <<table, txn, now, input, data, batch_size, sql_query,
                   data_dicts, idx, result, t1_start, err, calls, table0,
                   executed, outcome, prev>>

\* Lines 154-156.
HandleException ==
    /\ pc = "except_exc"
    /\ UNCHANGED <<qVars, rVars>>
    /\ ret' = zero_result
    /\ pc' = "done"
    /\ UNCHANGED <<table, txn, now, input, data, batch_size, sql_query,
                   data_dicts, idx, result, t1_start, err, calls, table0,
                   executed, outcome, prev>>

InitDbIdle ==
    /\ txn = table
    /\ now = 0
    /\ data = input
    /\ batch_size = 1
    /\ pc = "idle"
    /\ sql_query = build_sql_query(<<>>)
    /\ data_dicts = <<>>
    /\ idx = 0
    /\ result = Unbound
    /\ t1_start = 0
    /\ err = NoErr
    /\ ret = NotReturned
    /\ calls = 0
    /\ table0 = table
    /\ executed = <<>>
    /\ outcome = "none"
    /\ prev = FALSE

InitQIdle ==
    /\ qpc = "idle"
    /\ query = <<>>
    /\ qtext = <<>>
    /\ qexecs = 0
    /\ qraised = FALSE
    /\ qret = NotReturned

InitRIdle ==
    /\ rpc = "idle"
    /\ ri = 0
    /\ attempted = <<>>
    /\ doneLines = <<>>
    /\ errorLines = <<>>
    /\ summary = FALSE
    /\ page = 1
    /\ iter = 0
    /\ fetches = 0
    /\ results = <<>>
    /\ persisted = <<>>

Init ==
    /\ input \in {Frame(InputColumns, rows) : rows \in InputRows}
    /\ table \in {NoTable, DdlTable}
    /\ InitDbIdle
    /\ InitQIdle
    /\ InitRIdle

NextDb ==
    \/ \E b \in 1..MaxRows : InsertData(b)
    \/ ExecChunk
    \/ \E e \in SqlErrors : ExecChunkSqlError(e)
    \/ ExecChunkException
    \/ ExecChunkMissingTable
    \/ CommitReturn
    \/ CommitUnbound
    \/ FallbackAppend
    \/ SwallowSqlError
    \/ HandleException

Spec == Init /\ [][NextDb]_vars

\* ------------------------------------- insert_data on frames of any content
\* The preparation of a call (lines 109-136) on frames whose values include
\* every null-like value and whose column names carry punctuation.  The
\* names of one frame stay distinct after normalisation.
CleanVals == {"x", "None", "NaN", NaNFloat, NoneVal}

ColumnLists == {<<ColId, ColNote>>,
                <<ColNote, ColId>>,
                <<<<"Note", "_", "id">>, <<"x", "#", "id">>>>}

CleanRows ==
    UNION {[1..n -> {<<k, v>> : k \in Keys, v \in CleanVals}] : n \in 0..MaxRows}

InitPrepare ==
    /\ input \in {Frame(cols, rows) : cols \in ColumnLists, rows \in CleanRows}
    /\ table = NoTable
    /\ InitDbIdle
    /\ InitQIdle
    /\ InitRIdle

NextPrepare == \E b \in 1..MaxRows : InsertData(b)

SpecPrepare == InitPrepare /\ [][NextPrepare]_vars

\* ----------------------------------------------------------- execute_query
SuccessStatus == 200
FailureStatus == 400

\* A query text is a sequence of pieces: the two placeholder delimiters and
\* other text.
QueryPieces == {"%(", ")s", "name", "select"}
Queries == UNION {[1..n -> QueryPieces] : n \in 0..MaxQueryLen}

\* query.replace("%(", ":").replace(")s", "")
translate(q) ==
    LET colon == [k \in 1..Len(q) |-> IF q[k] = "%(" THEN ":" ELSE q[k]]
        keep(x) == x # ")s"
    IN  SelectSeq(colon, keep)

\* return result, 200
execute_query_return == [result |-> "result", status |-> SuccessStatus]

\* except Exception: return dict(), 400
execute_query_except_ok == [result |-> "empty", status |-> SuccessStatus]
execute_query_except == [result |-> "empty", status |-> FailureStatus]

QNotReturned == [result |-> "none", status |-> 0]

\* Lines 69-76: the arguments read, the placeholders translated.
ExecuteQuery(q) ==
    /\ qpc \in {"idle", "done"}
    /\ UNCHANGED <<dbVars, rVars>>
    /\ query' = q
    /\ qtext' = translate(q)
    /\ qexecs' = 0
    /\ qraised' = FALSE
    /\ qret' = QNotReturned
    /\ qpc' = "connect"

\* Lines 76-78 raising before anything is executed: get_db_engine returned
\* None, or engine.connect() raised; lines 81-83 return the failure.
QConnectRaises ==
    /\ qpc = "connect"
    /\ UNCHANGED <<dbVars, rVars>>
    /\ qraised' = TRUE
    /\ qret' = execute_query_except
    /\ qpc' = "done"
    /\ UNCHANGED <<query, qtext, qexecs>>

\* Line 79 succeeding, line 80.
QExecute ==
    /\ qpc = "connect"
    /\ UNCHANGED <<dbVars, rVars>>
    /\ qexecs' = qexecs + 1
    /\ qret' = execute_query_return
    /\ qpc' = "done"
    /\ UNCHANGED <<query, qtext, qraised>>

\* Line 79 raising, lines 81-83.
QExecuteRaises ==
    /\ qpc = "connect"
    /\ UNCHANGED <<dbVars, rVars>>
    /\ qexecs' = qexecs + 1
    /\ qraised' = TRUE
    /\ qret' = execute_query_except
    /\ qpc' = "done"
    /\ UNCHANGED <<query, qtext>>

InitIdle ==
    /\ input = Frame(InputColumns, <<>>)
    /\ table = NoTable
    /\ InitDbIdle
    /\ InitQIdle
    /\ InitRIdle

NextQuery ==
    \/ \E q \in Queries : ExecuteQuery(q)
    \/ QConnectRaises
    \/ QExecute
    \/ QExecuteRaises

SpecQuery == InitIdle /\ [][NextQuery]_vars

\* -------------------------------------------------- __main__, get_reports
reports_list == <<"creditnotedetails", "vendorcreditdetails", "aragingdetails",
                  "apagingdetails", "generalledgerdetails">>

PageCap == 200

\* The reports that read the has_more_page flag inside try/except.
FlagGuarded == {"creditnotedetails", "vendorcreditdetails"}

\* The report that fetches once before its paging loop (line 160).
FetchesBeforeLoop == {"creditnotedetails"}

report_name == reports_list[ri]

\* except Exception as e: the error is printed and the loop goes on
after_report_exception_propagates == "crashed"
after_report_exception == "loop"

\* A report raised: get_reports catches it (lines 575-577).
ReportRaised ==
    /\ errorLines' = Append(errorLines, report_name)
    /\ rpc' = after_report_exception

\* Lines 582-584: the ZohoReports object is built (token request, file path).
Construct ==
    /\ rpc = "idle"
    /\ UNCHANGED <<dbVars, qVars>>
    /\ rpc' = "loop"
    /\ UNCHANGED <<ri, attempted, doneLines, errorLines, summary, page, iter,
                   fetches, results, persisted>>

\* Line 584 raising: nothing catches it, the process ends with a traceback.
ConstructRaises ==
    /\ rpc = "idle"
    /\ UNCHANGED <<dbVars, qVars>>
    /\ rpc' = "crashed"
    /\ UNCHANGED <<ri, attempted, doneLines, errorLines, summary, page, iter,
                   fetches, results, persisted>>

\* Lines 556-571: the next report of the list is dispatched; the report sets
\* up its parameters (page 1) and its empty result list.
StartReport ==
    /\ rpc = "loop"
    /\ UNCHANGED <<dbVars, qVars>>
    /\ ri < Len(reports_list)
    /\ ri' = ri + 1
    /\ attempted' = Append(attempted, reports_list[ri + 1])
    /\ page' = 1
    /\ iter' = 0
    /\ fetches' = 0
    /\ results' = <<>>
    /\ persisted' = <<>>
    /\ rpc' = IF reports_list[ri + 1] \in FetchesBeforeLoop THEN "prefetch" ELSE "fetch"
    /\ UNCHANGED <<doneLines, errorLines, summary>>

\* Line 160: the credit notes report fetches once before its loop and drops
\* the response.
Prefetch ==
    /\ rpc = "prefetch"
    /\ UNCHANGED <<dbVars, qVars>>
    /\ fetches' = fetches + 1
    /\ rpc' = "fetch"
    /\ UNCHANGED <<ri, attempted, doneLines, errorLines, summary, page, iter,
                   results, persisted>>

\* One turn of the paging loop with has_more_page true: the page's records
\* are added, the page number and the counter grow, the cap is tested.
FetchMore ==
    /\ rpc = "fetch"
    /\ UNCHANGED <<dbVars, qVars>>
    /\ fetches' = fetches + 1
    /\ results' = Append(results, page)
    /\ page' = page + 1
    /\ iter' = iter + 1
    /\ rpc' = IF iter' = PageCap THEN "persist" ELSE "fetch"
    /\ UNCHANGED <<ri, attempted, doneLines, errorLines, summary, persisted>>

\* One turn of the paging loop with has_more_page false: break.
FetchLast ==
    /\ rpc = "fetch"
    /\ UNCHANGED <<dbVars, qVars>>
    /\ fetches' = fetches + 1
    /\ results' = Append(results, page)
    /\ rpc' = "persist"
    /\ UNCHANGED <<ri, attempted, doneLines, errorLines, summary, page, iter,
                   persisted>>

\* One turn of the paging loop with no has_more_page in the response: the
\* guarded reports break, the others raise KeyError.
FetchNoFlag ==
    /\ rpc = "fetch"
    /\ UNCHANGED <<dbVars, qVars>>
    /\ fetches' = fetches + 1
    /\ results' = Append(results, page)
    /\ IF report_name \in FlagGuarded
       THEN /\ rpc' = "persist"
            /\ UNCHANGED errorLines
       ELSE ReportRaised
    /\ UNCHANGED <<ri, attempted, doneLines, summary, page, iter, persisted>>

\* The request raising, or the response lacking the report's records.
FetchRaises ==
    /\ rpc \in {"prefetch", "fetch"}
    /\ UNCHANGED <<dbVars, qVars>>
    /\ fetches' = fetches + 1
    /\ ReportRaised
    /\ UNCHANGED <<ri, attempted, doneLines, summary, page, iter, results,
                   persisted>>

\* After the loop: the frame is built, reshaped and handed to
\* insert_df_table; line 573 prints "-- Done".
Persist ==
    /\ rpc = "persist"
    /\ UNCHANGED <<dbVars, qVars>>
    /\ persisted' = results
    /\ doneLines' = Append(doneLines, report_name)
    /\ rpc' = "loop"
    /\ UNCHANGED <<ri, attempted, errorLines, summary, page, iter, fetches,
                   results>>

\* After the loop: the reshaping or insert_df_table raises.
PersistRaises ==
    /\ rpc = "persist"
    /\ UNCHANGED <<dbVars, qVars>>
    /\ ReportRaised
    /\ UNCHANGED <<ri, attempted, doneLines, summary, page, iter, fetches,
                   results, persisted>>

\* get_reports returns; lines 587-588 print the total time.
Summary ==
    /\ rpc = "loop"
    /\ UNCHANGED <<dbVars, qVars>>
    /\ ri = Len(reports_list)
    /\ summary' = TRUE
    /\ rpc' = "exit"
    /\ UNCHANGED <<ri, attempted, doneLines, errorLines, page, iter, fetches,
                   results, persisted>>

NextReports ==
    \/ Construct
    \/ ConstructRaises
    \/ StartReport
    \/ Prefetch
    \/ FetchMore
    \/ FetchLast
    \/ FetchNoFlag
    \/ FetchRaises
    \/ Persist
    \/ PersistRaises
    \/ Summary

SpecReports == InitIdle /\ [][NextReports]_vars

\* ===================================================== claims: insert_data
\* The projection of a table's rows on the caller's (non-audit) columns.
DataRows(t) ==
    [i \in 1..Len(t.rows) |-> [c \in Range(InputColumns) |-> t.rows[i][c]]]

\* The call failed on a chunk for a reason other than the missing table.
ChunkFailed == pc = "done" /\ outcome \in {"sql_error", "exception"}

\* The rows a dict of the statement's batch would leave in the table.
Persisted(t, dict) ==
    \E i \in 1..Len(t.rows) :
        \A c \in Range(sql_query.columns) :
            t.rows[i][c] = bound_value(sql_query, dict, c)

\* C1 as stated: when chunk k > 1 fails (not for a missing table), the rows
\* of chunks 1..k-1 are committed and queryable after the call, and the call
\* reports a failure.
C1_EarlierChunksCommitted ==
    (ChunkFailed /\ Len(executed) > 1) =>
        /\ \A c \in 1..(Len(executed) - 1) :
               \A r \in 1..Len(chunks[c]) : Persisted(table, chunks[c][r])
        /\ ret \in {NoneRet, zero_result}

\* C1 amended: when chunk k > 1 fails (not for a missing table), the call's
\* one transaction is rolled back: the committed table is exactly what it was
\* before the call, so no row of chunks 1..k-1 is committed by the call; the
\* call returns no success pair: None for a SQLAlchemyError, [0, 0] otherwise.
C1_FailedCallRollsBack ==
    (ChunkFailed /\ Len(executed) > 1) =>
        /\ table = table0
        /\ outcome = "sql_error" => ret = NoneRet
        /\ outcome = "exception" => ret = zero_result

C1_Witness ==
    /\ ChunkFailed
    /\ Len(executed) = 2
    /\ Len(chunks) = 2
    /\ ~Persisted(table, chunks[1][1])

\* C2: a successful call leaves the rows that executing all of the data as one
\* chunk leaves, whatever the batch size: same rows, same keys, same values,
\* the last writer of a key winning.
C2_ChunkingTransparent ==
    (pc = "done" /\ outcome = "success") =>
        DataRows(table) = DataRows(execute(table0, sql_query, data_dicts, now).table)

C2_Witness ==
    /\ pc = "done" /\ outcome = "success"
    /\ Len(chunks) = 2
    /\ table.pk # NoName
    /\ data_dicts[1][normalise(<<ColId>>)[1]] = data_dicts[2][normalise(<<ColId>>)[1]]
    /\ data_dicts[1] # data_dicts[2]

\* C3: with a primary key on the destination, a second successful call with
\* the same data leaves the same rows with the same data values and the same
\* record_inserted, and changes record_updated of every row.
C3_UpsertIdempotent ==
    (pc = "done" /\ outcome = "success" /\ prev /\ table.pk # NoName) =>
        /\ DataRows(table) = DataRows(table0)
        /\ \A i \in 1..Len(table.rows) :
              /\ table.rows[i][record_inserted] = table0.rows[i][record_inserted]
              /\ table.rows[i][record_updated] # table0.rows[i][record_updated]

C3_Witness ==
    /\ pc = "done" /\ outcome = "success" /\ prev /\ table.pk # NoName
    /\ Len(table.rows) = 2

\* What the missing-table fallback is said to leave: a table with the input's
\* columns and the two audit columns, holding each input row once.
FallbackTable ==
    /\ table.exists
    /\ table.columns = input.columns \o <<record_inserted, record_updated>>
    /\ Len(table.rows) = Len(input.rows)
    /\ \A i \in 1..Len(input.rows) : \A c \in 1..Len(input.columns) :
           table.rows[i][input.columns[c]] = input.rows[i][c]

C6_FailureReturnsZeroResult ==
    ChunkFailed => ret = ListRet(0, 0)

\* C7: after the missing-table fallback the call returns a
\* (rows_affected, elapsed_seconds) pair.
C7_FallbackReturnsPair ==
    (pc = "done" /\ outcome = "fallback") => (ret.kind = "list" /\ Len(ret.v) = 2)

\* C8: after any call the caller's table has the columns and values it had
\* before the call.
C8_CallerTableUntouched ==
    pc = "done" => (data.columns = input.columns /\ data.rows = input.rows)

\* =================================================== claims: get_reports
\* C9: the five reports are attempted in the order of reports_list; a report
\* that raises is caught and the later reports are still attempted, so that
\* get_reports returns and the total-time line is printed whatever reports
\* failed: the run ends only past the fifth report, with one line per report,
\* and never stops in between.
C9_AllReportsAttempted ==
    /\ attempted = SubSeq(reports_list, 1, Len(attempted))
    /\ rpc = "crashed" => attempted = <<>>
    /\ summary <=> rpc = "exit"
    /\ rpc = "exit" =>
          /\ attempted = reports_list
          /\ Len(doneLines) + Len(errorLines) = Len(reports_list)
    /\ rpc \in {"exit", "crashed"} \/ ENABLED NextReports

C9_Witness ==
    /\ rpc = "exit"
    /\ summary
    /\ errorLines = <<"creditnotedetails", "apagingdetails">>
    /\ doneLines = <<"vendorcreditdetails", "aragingdetails", "generalledgerdetails">>

\* ================================================= claims: execute_query
\* C10: a call executes the statement at most once; when the execution
\* raises it returns the empty result with status 400; it returns status 200
\* only when the one execution succeeded.
C10_ExecutesOnce ==
    /\ qexecs <= 1
    /\ (qpc = "done" /\ qraised) => qret = [result |-> "empty", status |-> 400]
    /\ (qpc = "done" /\ qret.status = 200) => (qexecs = 1 /\ ~qraised)

C10_Witness ==
    /\ qpc = "done"
    /\ qraised
    /\ qexecs = 1
    /\ qret.status = 400
    /\ query = <<"select", "%(", "name">>

\* ======================================= claims: what insert_data binds
NullLike == {NoneVal, NaNFloat, "NaN"}

\* C11: every absent value, float NaN and string "NaN" of the input is bound
\* as None; no bound row carries NaN or "NaN", nor "None" where the input had
\* a null-like value; every other value is bound unchanged.
C11_NullsBoundAsNone ==
    pc = "loop" =>
        /\ Len(data_dicts) = Len(data.rows)
        /\ \A k \in 1..Len(chunks) : \A j \in 1..Len(chunks[k]) :
             \A c \in 1..Len(data.columns) :
               LET r == (k - 1) * batch_size + j
                   v == data.rows[r][c]
                   b == bound_value(sql_query, chunks[k][j], data.columns[c])
               IN  /\ v \in NullLike => b = NoneVal
                   /\ v \notin NullLike => b = v
                   /\ b \notin {NaNFloat, "NaN"}

C11_Witness ==
    /\ pc = "loop"
    /\ Len(data.rows) = 2
    /\ data.rows[1][2] = "NaN"
    /\ data.rows[2][2] = NaNFloat
    /\ bound_value(sql_query, data_dicts[1], data.columns[2]) = NoneVal
    /\ bound_value(sql_query, data_dicts[2], data.columns[2]) = NoneVal

\* A name with its non-alphanumeric characters removed, character by character.
RECURSIVE StripNonAlnum(_)
StripNonAlnum(name) ==
    IF name = <<>> THEN <<>>
    ELSE IF Head(name) \in AlNum THEN <<Head(name)>> \o StripNonAlnum(Tail(name))
    ELSE StripNonAlnum(Tail(name))

\* C12: the statement names every destination column by its original name
\* and binds it through the parameter named by the original with the
\* non-alphanumeric characters removed; the cleaned rows carry exactly those
\* parameter names as keys, in the column order of the input.
C12_ColumnsBoundByNormalisedName ==
    pc = "loop" =>
        /\ sql_query.columns = data.columns
        /\ Len(sql_query.params) = Len(data.columns)
        /\ \A c \in 1..Len(data.columns) :
             sql_query.params[c] = StripNonAlnum(data.columns[c])
        /\ _clean_data(data).columns = sql_query.params
        /\ \A r \in 1..Len(data_dicts) :
             /\ DOMAIN data_dicts[r] = Range(sql_query.params)
             /\ \A c \in 1..Len(data.columns) :
                  data_dicts[r][sql_query.params[c]] = clean_value(data.rows[r][c])

C12_Witness ==
    /\ pc = "loop"
    /\ data.columns[2] = ColNote
    /\ sql_query.columns[2] = ColNote
    /\ sql_query.params[2] = <<"Credit", "Note">>
    /\ Len(data_dicts) > 0
    /\ <<"Credit", "Note">> \in DOMAIN data_dicts[1]
    /\ ColNote \notin DOMAIN data_dicts[1]

\* ======================================= claims: the transaction of a call
\* C13: the chunks of a call run in one transaction: while chunks execute,
\* and after the last one until the scope is left, the committed table is the
\* one the call found; a call that fails on a chunk leaves it so; a successful
\* call commits the writes of all its chunks at once.
C13_OneTransactionPerCall ==
    /\ pc = "loop" => table = table0
    /\ (pc \in {"except_sql", "except_exc", "done"}
          /\ outcome \in {"sql_error", "exception"}) => table = table0
    /\ (pc = "done" /\ outcome = "success") =>
          /\ executed = [k \in 1..Len(chunks) |-> k]
          /\ table = txn

C13_Witness ==
    /\ pc = "loop"
    /\ Len(chunks) = 2
    /\ Len(executed) = 2
    /\ Persisted(txn, chunks[1][1])
    /\ txn # table
    /\ table = table0

\* C14: the fallback append runs only for error 1146 with "doesn't exist";
\* after any other failure the table is the one the call found (nothing
\* appended, no table created), and no chunk of a call is executed twice.
C14_FallbackOnlyForMissingTable ==
    /\ (pc = "done" /\ outcome = "fallback") =>
          (err.code = 1146 /\ err.doesnt_exist)
    /\ (pc = "done" /\ outcome \in {"sql_error", "exception"}) =>
          /\ table = table0
          /\ table.exists = table0.exists
    /\ \A i, j \in 1..Len(executed) : i < j => executed[i] < executed[j]

C14_Witness ==
    /\ pc = "done"
    /\ outcome = "sql_error"
    /\ err.code # 1146
    /\ err.doesnt_exist
    /\ Len(executed) = 2
    /\ table = table0

\* ======================================= claims: the pair a call returns
\* The transaction's table after the first k chunks of the call, chunk j being
\* executed at the instant t1_start + j.
RECURSIVE TxnAfter(_)
TxnAfter(k) ==
    IF k = 0 THEN table0
    ELSE execute(TxnAfter(k - 1), sql_query, chunks[k], t1_start + k).table

\* The affected-row count the database reports for chunk k of the call.
ChunkRowcount(k) ==
    execute(TxnAfter(k - 1), sql_query, chunks[k], t1_start + k).rowcount

\* C17: a successful call with at least one row returns the affected-row
\* count of its last chunk, whatever the earlier chunks reported, and the time
\* from line 135 to the end of the execution loop: the setup is not in it.
C17_ReturnsLastChunkCount ==
    (pc = "done" /\ outcome = "success") =>
        /\ Len(chunks) >= 1
        /\ ret.kind = "list"
        /\ ret.v[1] = ChunkRowcount(Len(chunks))
        /\ ret.v[2] = Len(chunks)
        /\ ret.v[2] = now - t1_start

C17_Witness ==
    /\ pc = "done"
    /\ outcome = "success"
    /\ Len(chunks) = 2
    /\ ChunkRowcount(1) = 1
    /\ ChunkRowcount(2) = 2
    /\ ret = ListRet(2, 2)

\* ======================================= claims: the paging loops
\* C15: in one run of any report the number of page fetches (GETs to the
\* report API) never exceeds 200, whatever flags the responses carry.
C15_FetchesCapped == fetches <= PageCap

\* C16: a report's page number starts at 1 and grows by 1 per further fetch;
\* a response without a true has-more-pages flag (absent or false: its
\* records are added and the page number stays) ends the paging normally: the
\* pages accumulated, each once and in page order, go on to be persisted.
C16_PagingEndsNormally ==
    [][/\ (rpc = "loop" /\ rpc' \in {"prefetch", "fetch"}) => page' = 1
       /\ (rpc = "fetch" /\ results' # results) =>
             /\ results' = [k \in 1..page |-> k]
             /\ page' \in {page, page + 1}
             /\ page' = page => rpc' = "persist"
             /\ page' = page + 1 => rpc' \in {"fetch", "persist"}
       /\ (rpc = "persist" /\ rpc' = "loop" /\ errorLines' = errorLines) =>
             persisted' = results]_vars

====
